---- MODULE Spec2Model ----
(***************************************************************************)
(* Course catalogue: the persisted course collection kept under the        *)
(* localStorage key 'courses' and the gateway operations of                *)
(* src/services/courseApi.ts that read and write it; the store of          *)
(* src/store/CourseContext.tsx that holds a local copy of the collection;  *)
(* and the list engine of src/components/course/CourseListPage.tsx that    *)
(* filters and orders the local copy for display.                          *)
(*                                                                         *)
(* Every gateway operation awaits randomDelay() first and then runs to its *)
(* end without another await, so each one is a single atomic step taken at *)
(* the moment its delay elapses; what the store does when the call         *)
(* settles, up to its next await, belongs to the same step.                *)
(***************************************************************************)
EXTENDS Integers, Sequences, FiniteSets, TLC

VARIABLES
    storage,    \* the array getCoursesFromStorage() returns: localStorage['courses'], [] at first
    now,        \* the wall clock read by new Date()
    nops,       \* history: number of gateway calls made so far
    nextKey,    \* history: serial number of the next record ever created
    last,       \* history: the last gateway call, what was asked and how it ended
    courses,    \* CourseContext: the local collection, useState<Course[]>([])
    loading,    \* CourseContext: useState(false)
    error,      \* CourseContext: useState<string | null>(null)
    calls,      \* the store operations in flight, each waiting for a gateway call
    filters,    \* CourseListPage: useState<FilterState>
    filtered,   \* CourseListPage: the list the last render computed (useMemo)
    tz,         \* the browser's time zone: local time minus UTC
    page,       \* the route shown, the form of CourseFormPage, localStorage's draft,
                \* and the handlers of the pages waiting for the store
    hist        \* history: the last call on the store or the page

apiVars == <<storage, now, nops, nextKey, last>>
storeVars == <<courses, loading, error, calls>>
pageVars == <<filters, filtered, tz, page>>

vars == <<storage, now, nops, nextKey, last,
          courses, loading, error, calls, filters, filtered, tz, page, hist>>

----------------------------------------------------------------------------
(* Bounds of the model *)

MaxCourses == 2     \* most records kept in storage
MaxTime == 1        \* last clock reading
MaxOps == 3         \* most gateway calls in one run
MaxActs == 3        \* most calls on the store or the page in one run
MaxStarts == 2      \* most calls on the store over the gateway in one run
MaxCalls == 2       \* most store operations in flight at a time

(* Values the inputs are drawn from *)

Ids == {"a", "b"}               \* outcomes of Math.random().toString(36).substr(2, 9)
Titles == {"", "A"}
Descriptions == {"d"}
Durations == {0, 1}
Statuses == {"draft", "published", "archived"}
Timestamps == 0..MaxTime

(* Status codes of the rejections thrown by the gateway; Ok is a resolved call *)
Ok == 0
InvalidData == 400
EditForbidden == 403
NotFound == 404
NetworkError == 500

----------------------------------------------------------------------------
(* Records as JavaScript objects: a function from property names to values. *)

Has(obj, f) == f \in DOMAIN obj

EmptyObj == [f \in {} |-> ""]

\* { ...a, ...b }: b's own properties override a's
Spread(a, b) ==
    [f \in (DOMAIN a) \cup (DOMAIN b) |-> IF f \in DOMAIN b THEN b[f] ELSE a[f]]

\* obj with property f set to v
SetProp(obj, f, v) == Spread(obj, (f :> v))

\* every object that extends one of objs by no or one value of property f
WithOptional(objs, f, values) ==
    objs \cup {SetProp(o, f, v) : o \in objs, v \in values}

\* every object that extends one of objs by one value of property f
WithRequired(objs, f, values) ==
    {SetProp(o, f, v) : o \in objs, v \in values}

\* CourseFormData: title, description?, duration
CourseFormData ==
    WithOptional(
        WithRequired(WithRequired({EmptyObj}, "title", Titles), "duration", Durations),
        "description", Descriptions)

\* Partial<CourseFormData> & { status?: Course['status'] }
UpdateData ==
    WithOptional(
        WithOptional(
            WithOptional(
                WithOptional({EmptyObj}, "title", Titles),
                "description", Descriptions),
            "duration", Durations),
        "status", Statuses)

\* Partial<Course>, the data of the store's update: what updateCourse declares, or
\* a choice of the properties it does not declare (id, createdAt, publishedAt)
PartialCourse ==
    UpdateData \cup
    WithOptional(
        WithOptional(
            WithOptional({EmptyObj}, "id", Ids),
            "createdAt", Timestamps),
        "publishedAt", Timestamps)

----------------------------------------------------------------------------
(* courseApi.ts *)

\* the elements of an array
Range(arr) == {arr[i] : i \in DOMAIN arr}

\* courses.findIndex(c => c.id === id), 1-based; 0 stands for -1
RECURSIVE FindFrom(_, _, _)
FindFrom(stored, id, i) ==
    IF i > Len(stored) THEN 0
    ELSE IF stored[i].id = id THEN i
    ELSE FindFrom(stored, id, i + 1)

findIndex(stored, id) == FindFrom(stored, id, 1)

\* courses.splice(idx, 1)
RemoveAt(stored, idx) ==
    [i \in 1..(Len(stored) - 1) |-> IF i < idx THEN stored[i] ELSE stored[i + 1]]

\* InvalidCreate with the duration test written < 0
InvalidCreateStrict(data) == data.title = "" \/ data.duration < 0

\* !data.title || data.duration <= 0
InvalidCreate(data) == data.title = "" \/ data.duration <= 0

\* the object literal of createCourse, as it is read back from storage:
\* JSON.stringify drops the description property when data has none
NewCourse(data, id, t, key) ==
    LET base == [id |-> id, title |-> data.title, duration |-> data.duration,
                 status |-> "draft", createdAt |-> t,
                 key |-> key, everPublished |-> FALSE]
    IN  IF Has(data, "description")
        THEN SetProp(base, "description", data.description)
        ELSE base

\* createCourse with unshift in place of push
createCourseUnshift(stored, data, id, t, key) ==
    IF InvalidCreate(data)
    THEN [err |-> InvalidData, courses |-> stored]
    ELSE [err |-> Ok, courses |-> <<NewCourse(data, id, t, key)>> \o stored]

\* createCourse(data): the outcome and the array saved to storage
createCourse(stored, data, id, t, key) ==
    IF InvalidCreate(data)
    THEN [err |-> InvalidData, courses |-> stored]
    ELSE [err |-> Ok, courses |-> Append(stored, NewCourse(data, id, t, key))]

\* Merged without the !courses[idx].publishedAt test: every publish stamps again
MergedRestamp(course, data, t) ==
    LET m == Spread(course, data)
        s == IF Has(data, "status") /\ data.status = "published"
             THEN SetProp(m, "publishedAt", t)
             ELSE m
    IN  SetProp(s, "everPublished", s.everPublished \/ s.status = "published")

\* Merged with the stamp tied to the status stored before the merge
MergedStampStored(course, data, t) ==
    LET m == Spread(course, data)
        s == IF course.status = "published" /\ ~Has(m, "publishedAt")
             THEN SetProp(m, "publishedAt", t)
             ELSE m
    IN  SetProp(s, "everPublished", s.everPublished \/ s.status = "published")

\* lines 51-54 of updateCourse: the merge and the publishedAt stamp
Merged(course, data, t) ==
    LET m == Spread(course, data)
        s == IF Has(data, "status") /\ data.status = "published" /\ ~Has(m, "publishedAt")
             THEN SetProp(m, "publishedAt", t)
             ELSE m
    IN  SetProp(s, "everPublished", s.everPublished \/ s.status = "published")

\* updateCourse without the archived test of line 50
updateCourseNoGate(stored, id, data, t) ==
    LET idx == findIndex(stored, id)
    IN  IF idx = 0 THEN [err |-> NotFound, courses |-> stored]
        ELSE [err |-> Ok,
              courses |-> [stored EXCEPT ![idx] = Merged(stored[idx], data, t)]]

\* updateCourse(id, data): the outcome and the array saved to storage
updateCourse(stored, id, data, t) ==
    LET idx == findIndex(stored, id)
    IN  IF idx = 0 THEN [err |-> NotFound, courses |-> stored]
        ELSE IF stored[idx].status = "archived"
        THEN [err |-> EditForbidden, courses |-> stored]
        ELSE [err |-> Ok,
              courses |-> [stored EXCEPT ![idx] = Merged(stored[idx], data, t)]]

\* deleteCourse without the test of line 63: splice(-1, 1) removes the last element
deleteCourseNoCheck(stored, id) ==
    LET idx == findIndex(stored, id)
    IN  IF idx = 0
        THEN [err |-> Ok,
              courses |-> IF stored = <<>> THEN stored
                          ELSE SubSeq(stored, 1, Len(stored) - 1)]
        ELSE [err |-> Ok, courses |-> RemoveAt(stored, idx)]

\* deleteCourse(id): the outcome and the array saved to storage
deleteCourse(stored, id) ==
    LET idx == findIndex(stored, id)
    IN  IF idx = 0 THEN [err |-> NotFound, courses |-> stored]
        ELSE [err |-> Ok, courses |-> RemoveAt(stored, idx)]

----------------------------------------------------------------------------
(* Texts, dates and numbers as the list engine reads them *)

\* the characters of every text of the model: titles, search texts, number inputs
Chars ==
    ("" :> <<>>) @@ ("A" :> <<"A">>) @@ ("a" :> <<"a">>) @@ ("B" :> <<"B">>) @@
    ("ab" :> <<"a", "b">>) @@ ("1" :> <<"1">>) @@ ("2" :> <<"2">>) @@ ("x" :> <<"x">>)

\* String.prototype.toLowerCase
toLowerCase(cs) ==
    [i \in DOMAIN cs |-> IF cs[i] = "A" THEN "a" ELSE IF cs[i] = "B" THEN "b" ELSE cs[i]]

\* String.prototype.includes: needle occurs somewhere in hay
includes(hay, needle) ==
    \E i \in 0..(Len(hay) - Len(needle)) : SubSeq(hay, i + 1, i + Len(needle)) = needle

Sign(n) == IF n < 0 THEN -1 ELSE IF n > 0 THEN 1 ELSE 0

\* collation weights of the letters: the letter itself first, its case after
Primary == ("a" :> 1) @@ ("A" :> 1) @@ ("b" :> 2) @@ ("B" :> 2)
Tertiary == ("a" :> 0) @@ ("A" :> 1) @@ ("b" :> 0) @@ ("B" :> 1)

\* s against t by the weights W, position by position; a proper prefix sorts first
CompareBy(s, t, W) ==
    LET D == {i \in (DOMAIN s) \cap (DOMAIN t) : W[s[i]] # W[t[i]]}
    IN  IF D # {}
        THEN LET i == CHOOSE d \in D : \A e \in D : d <= e
             IN  Sign(W[s[i]] - W[t[i]])
        ELSE Sign(Len(s) - Len(t))

\* String.prototype.localeCompare: dictionary order of the letters, then lower
\* case before upper case where the letters are the same
localeCompare(a, b) ==
    LET p == CompareBy(Chars[a], Chars[b], Primary)
    IN  IF p # 0 THEN p ELSE CompareBy(Chars[a], Chars[b], Tertiary)

\* instants are counted in clock ticks from the epoch, DayLen of them to a day
DayLen == 2

\* the calendar days a date input can hold, numbered from the epoch
Dates == ("1970-01-01" :> 0) @@ ("1970-01-02" :> 1)

\* new Date('YYYY-MM-DD'): midnight UTC of that day
DateOf(text) == Dates[text] * DayLen

\* date.setHours(23, 59, 59, 999): the last instant of the local day of t, with
\* local time = UTC + z
setHoursEndOfDay(t, z) == ((t + z) \div DayLen) * DayLen + (DayLen - 1) - z

NaN == [nan |-> TRUE]

\* the value of the digits of cs from position i on, up to the first other character
RECURSIVE DigitsFrom(_, _, _)
DigitsFrom(cs, i, acc) ==
    IF i > Len(cs) THEN acc
    ELSE IF cs[i] = "1" THEN DigitsFrom(cs, i + 1, 10 * acc + 1)
    ELSE IF cs[i] = "2" THEN DigitsFrom(cs, i + 1, 10 * acc + 2)
    ELSE acc

\* parseInt(text): the leading digits, NaN when the text starts with none
parseInt(text) ==
    LET cs == Chars[text]
    IN  IF cs = <<>> \/ cs[1] \notin {"1", "2"} THEN NaN
        ELSE [nan |-> FALSE, n |-> DigitsFrom(cs, 1, 0)]

\* n >= p and n <= p for a parsed p: every comparison with NaN is false
Geq(n, p) == ~p.nan /\ n >= p.n
Leq(n, p) == ~p.nan /\ n <= p.n

----------------------------------------------------------------------------
(* CourseListPage.tsx: the filter state and the list engine *)

StatusOptions == {"all"} \cup Statuses
SearchTexts == {"", "a", "B"}
SortKeys == {"title", "createdAt", "duration"}
SortOrders == {"asc", "desc"}
ViewModes == {"grid", "list", "drag"}
DateTexts == {""} \cup DOMAIN Dates
DurationTexts == {"", "1", "2", "x"}
TimeZones == {-1, 0, 1}

\* the initial FilterState
DefaultFilters ==
    [status |-> "all", search |-> "", sortBy |-> "createdAt", sortOrder |-> "desc",
     view |-> "grid", showAdvancedFilters |-> FALSE,
     dateRange |-> [start |-> "", end |-> ""],
     durationRange |-> [min |-> "", max |-> ""]]

\* the filters of the memo, in the order of the source
byStatus(list, f) ==
    IF f.status # "all"
    THEN SelectSeq(list, LAMBDA c : c.status = f.status)
    ELSE list

bySearch(list, f) ==
    IF f.search # ""
    THEN SelectSeq(list, LAMBDA c :
            includes(toLowerCase(Chars[c.title]), toLowerCase(Chars[f.search])))
    ELSE list

byStartDate(list, f) ==
    IF f.dateRange.start # ""
    THEN SelectSeq(list, LAMBDA c : c.createdAt >= DateOf(f.dateRange.start))
    ELSE list

byEndDate(list, f, z) ==
    IF f.dateRange.end # ""
    THEN SelectSeq(list, LAMBDA c :
            c.createdAt <= setHoursEndOfDay(DateOf(f.dateRange.end), z))
    ELSE list

byMinDuration(list, f) ==
    IF f.durationRange.min # ""
    THEN SelectSeq(list, LAMBDA c : Geq(c.duration, parseInt(f.durationRange.min)))
    ELSE list

byMaxDuration(list, f) ==
    IF f.durationRange.max # ""
    THEN SelectSeq(list, LAMBDA c : Leq(c.duration, parseInt(f.durationRange.max)))
    ELSE list

\* the k-th filter of the memo
FilterStages == 1..6
Stage(k, list, f, z) ==
    CASE k = 1 -> byStatus(list, f)
      [] k = 2 -> bySearch(list, f)
      [] k = 3 -> byStartDate(list, f)
      [] k = 4 -> byEndDate(list, f, z)
      [] k = 5 -> byMinDuration(list, f)
      [] k = 6 -> byMaxDuration(list, f)

\* the filters with the search run on courses, not on what the status filter left
applyFiltersSearchAll(list, f, z) ==
    LET searched == bySearch(list, f)
    IN  IF f.search # ""
        THEN byMaxDuration(byMinDuration(byEndDate(byStartDate(searched, f), f, z), f), f)
        ELSE byMaxDuration(byMinDuration(byEndDate(byStartDate(byStatus(list, f), f), f, z), f), f)

\* lines 432-455: let filtered = courses; then each filter on what the one before left
applyFilters(list, f, z) ==
    byMaxDuration(byMinDuration(byEndDate(byStartDate(bySearch(byStatus(list, f), f), f), f, z), f), f)

\* no filter has run: filtered is still the array the store holds, not a new one
SameArray(f) ==
    /\ f.status = "all"
    /\ f.search = ""
    /\ f.dateRange.start = ""
    /\ f.dateRange.end = ""
    /\ f.durationRange.min = ""
    /\ f.durationRange.max = ""

\* let cmp = 0; if (sortBy === 'title') ... : a against b by the sort key
cmp(a, b, f) ==
    IF f.sortBy = "title" THEN localeCompare(a.title, b.title)
    ELSE IF f.sortBy = "createdAt" THEN a.createdAt - b.createdAt
    ELSE IF f.sortBy = "duration" THEN a.duration - b.duration
    ELSE 0

\* the comparator with the test of sortOrder the wrong way round
compareInverted(a, b, f) ==
    IF f.sortOrder = "asc" THEN -cmp(a, b, f) ELSE cmp(a, b, f)

\* the comparator handed to sort: cmp, or -cmp when sortOrder is not 'asc'
compare(a, b, f) ==
    IF f.sortOrder = "asc" THEN cmp(a, b, f) ELSE -cmp(a, b, f)

\* x put into the sorted list s, behind every element it does not come before
RECURSIVE InsertSorted(_, _, _)
InsertSorted(s, x, f) ==
    IF s = <<>> THEN <<x>>
    ELSE IF compare(Head(s), x, f) > 0 THEN <<x>> \o s
    ELSE <<Head(s)>> \o InsertSorted(Tail(s), x, f)

\* Array.prototype.sort with the comparator: a stable sort
RECURSIVE sort(_, _)
sort(arr, f) ==
    IF arr = <<>> THEN <<>>
    ELSE InsertSorted(sort(SubSeq(arr, 1, Len(arr) - 1), f), arr[Len(arr)], f)

Reverse(arr) == [i \in DOMAIN arr |-> arr[Len(arr) + 1 - i]]

\* The memo keeps two arrays apart: m.filtered, what it returns, and m.courses,
\* the array of the store; m.same tells that they are one and the same array.

\* sorting ascending and reversing the outcome for 'desc'
sortedAscThenReversed(m, f) ==
    LET asc == sort(m.filtered, [f EXCEPT !.sortOrder = "asc"])
    IN  [filtered |-> IF f.sortOrder = "asc" THEN asc ELSE Reverse(asc),
         same |-> FALSE, courses |-> m.courses]

\* filtered.sort(...) on the array itself: the store's array when it is the same
sortedInPlace(m, f) ==
    [filtered |-> sort(m.filtered, f), same |-> m.same,
     courses |-> IF m.same THEN sort(m.filtered, f) ELSE m.courses]

\* [...filtered].sort(...): a copy is sorted
sortedCopy(m, f) ==
    [filtered |-> sort(m.filtered, f), same |-> FALSE, courses |-> m.courses]

\* the memo that sorts in every view
useMemoSortsAlways(list, f, z) ==
    sortedCopy([filtered |-> applyFilters(list, f, z), same |-> SameArray(f),
                courses |-> list], f)

\* useMemo(() => {...}, [courses, filters]): the list to display, and the store's
\* array as the computation leaves it
useMemo(list, f, z) ==
    LET m == [filtered |-> applyFilters(list, f, z), same |-> SameArray(f),
              courses |-> list]
    IN  IF f.view # "drag" THEN sortedCopy(m, f) ELSE m

----------------------------------------------------------------------------
(* CourseContext.tsx: reorder *)

\* what a slot of an array holds when nothing was put there
undefined == [undefined |-> TRUE]

\* where splice(start, ...) works: a negative start counts from the end, and the
\* outcome is kept within 0..length
SpliceStart(arr, start) ==
    IF start < 0
    THEN (IF Len(arr) + start < 0 THEN 0 ELSE Len(arr) + start)
    ELSE (IF start > Len(arr) THEN Len(arr) ELSE start)

\* const [removed] = newCourses.splice(startIndex, 1): the array left and the
\* element taken out, undefined when there was none at startIndex
spliceOut(arr, start) ==
    LET s == SpliceStart(arr, start)
    IN  IF s < Len(arr)
        THEN [arr |-> RemoveAt(arr, s + 1), removed |-> arr[s + 1]]
        ELSE [arr |-> arr, removed |-> undefined]

\* newCourses.splice(endIndex, 0, removed)
spliceIn(arr, start, item) ==
    LET s == SpliceStart(arr, start)
    IN  SubSeq(arr, 1, s) \o <<item>> \o SubSeq(arr, s + 1, Len(arr))

\* reorder that puts the element in front of the one now at endIndex: one place
\* less when that one stands behind startIndex
reorderBefore(prevCourses, startIndex, endIndex) ==
    LET r == spliceOut(prevCourses, startIndex)
    IN  spliceIn(r.arr, IF endIndex > startIndex THEN endIndex - 1 ELSE endIndex, r.removed)

\* reorder(startIndex, endIndex): the array setCourses is given, indices from 0
reorder(prevCourses, startIndex, endIndex) ==
    LET r == spliceOut(prevCourses, startIndex)
    IN  spliceIn(r.arr, endIndex, r.removed)

\* error: string | null
null == "<null>"

\* no call on the store or the page yet; prev is the call before the last one
NoPrev == [n |-> 0, op |-> "none", from |-> 0, to |-> 0, before |-> <<>>, after |-> <<>>]
NoCall == [n |-> 0, op |-> "none", from |-> 0, to |-> 0, before |-> <<>>, after |-> <<>>,
           prev |-> NoPrev]

----------------------------------------------------------------------------
(* CourseFormPage.tsx: the form, its rules, its draft in localStorage *)

\* what is typed into the title and the duration inputs
FormTitles == {"", "A"}
FormDurations == {0 - 1, 0, 1}

\* maxLength: { value: 100, message: 'Max 100 characters' }
MaxTitle == 100

\* defaultValues of the create form
EmptyForm == [title |-> "", description |-> "", duration |-> 0]

\* the values of the form of a course: description: course.description || ''
FormOf(course) ==
    [title |-> course.title,
     description |-> IF Has(course, "description") THEN course.description ELSE "",
     duration |-> course.duration]

NoErrors == [title |-> "", duration |-> ""]

NoToast == [title |-> "", status |-> "none"]

\* localStorage.getItem(DRAFT_KEY) when the key is absent
NoItem == [null |-> TRUE]

\* the list page is shown, no form is mounted, localStorage has no draft and
\* no handler is waiting
NoPage ==
    [route |-> "/", id |-> "", values |-> EmptyForm, defaultValues |-> EmptyForm,
     initialLoaded |-> FALSE, isSubmitted |-> FALSE, errors |-> NoErrors,
     draft |-> NoItem, waits |-> {}, toast |-> NoToast, at |-> 0]

\* const isEdit = Boolean(id)
isEdit(p) == p.route = "/edit"

\* courses.find(c => c.id === id)
find(list, id) ==
    LET i == findIndex(list, id)
    IN  IF i = 0 THEN undefined ELSE list[i]

\* a page that renders the form whatever the status of the course
ViewAnyStatus(p, list) ==
    IF p.route = "/" THEN "list"
    ELSE IF isEdit(p) /\ find(list, p.id) = undefined THEN "spinner"
    ELSE "form"

\* what CourseFormPage returns: the blocking message 'Archived courses cannot
\* be edited', the spinner, or the form; "list" is the other route
View(p, list) ==
    LET course == find(list, p.id)
    IN  IF p.route = "/" THEN "list"
        ELSE IF isEdit(p) /\ course # undefined /\ course.status = "archived" THEN "blocked"
        ELSE IF isEdit(p) /\ course = undefined THEN "spinner"
        ELSE "form"

\* register('title', { required, maxLength })
titleError(v) ==
    IF v.title = "" THEN "Title is required"
    ELSE IF Len(Chars[v.title]) > MaxTitle THEN "Max 100 characters"
    ELSE ""

\* the text in the duration input: value={watch('duration') || ''}
durationInput(v) == IF v.duration = 0 THEN "" ELSE "number"

\* register('duration', { required, valueAsNumber, min }): required fails on an
\* input without text, min on a number below 1
durationError(v) ==
    IF durationInput(v) = "" THEN "Duration is required"
    ELSE IF v.duration < 1 THEN "Must be greater than 0"
    ELSE ""

\* the rules of every field, each reported under its own field
validate(v) == [title |-> titleError(v), duration |-> durationError(v)]

\* reset(values) of useForm: the values become the default values, the errors
\* and the submit state are forgotten
reset(p, v) ==
    [p EXCEPT !.values = v, !.defaultValues = v, !.errors = NoErrors,
              !.isSubmitted = FALSE]

\* formState.isDirty
isDirty(p) == p.values # p.defaultValues

\* the effect that loads the draft (create) or the course (edit) into the form
loadEffect(p, list) ==
    LET course == find(list, p.id)
    IN  IF ~isEdit(p) /\ ~p.initialLoaded
        THEN [(IF p.draft # NoItem THEN reset(p, p.draft) ELSE p)
                 EXCEPT !.initialLoaded = TRUE]
        ELSE IF isEdit(p) /\ course # undefined
        THEN [reset(p, FormOf(course)) EXCEPT !.initialLoaded = TRUE]
        ELSE p

\* the effect that saves the draft:
\* if (!isEdit && isDirty) localStorage.setItem(DRAFT_KEY, JSON.stringify(watched))
saveEffect(p) ==
    IF ~isEdit(p) /\ isDirty(p) THEN [p EXCEPT !.draft = p.values] ELSE p

\* the page a route shows at its first render, after its effects
mounted(p, route, id, list) ==
    LET course == find(list, id)
        first == IF route = "/edit" /\ course # undefined THEN FormOf(course) ELSE EmptyForm
        fresh == [p EXCEPT !.route = route, !.id = id, !.values = first,
                           !.defaultValues = first, !.initialLoaded = FALSE,
                           !.isSubmitted = FALSE, !.errors = NoErrors]
    IN  IF route = "/" THEN fresh ELSE saveEffect(loadEffect(fresh, list))

----------------------------------------------------------------------------
(* The state machine *)

Init ==
    /\ storage = <<>>
    /\ now = 0
    /\ nops = 0
    /\ nextKey = 1
    /\ last = [op |-> "none", id |-> "", data |-> EmptyObj, err |-> Ok]
    /\ courses = <<>>
    /\ loading = FALSE
    /\ error = null
    /\ calls = {}
    /\ filters = DefaultFilters
    /\ filtered = <<>>
    /\ tz = 0
    /\ page = NoPage
    /\ hist = NoCall

\* time passes between two calls
Tick ==
    /\ now < MaxTime
    /\ now' = now + 1
    /\ UNCHANGED <<storage, nops, nextKey, last>>
    /\ UNCHANGED <<storeVars, pageVars, hist>>

CreateCourse ==
    /\ nops < MaxOps
    /\ \E data \in CourseFormData, id \in Ids :
        LET r == createCourse(storage, data, id, now, nextKey)
        IN  /\ r.err # Ok \/ Len(storage) < MaxCourses
            /\ storage' = r.courses
            /\ nextKey' = IF r.err = Ok THEN nextKey + 1 ELSE nextKey
            /\ last' = [op |-> "create", id |-> id, data |-> data, err |-> r.err]
    /\ nops' = nops + 1
    /\ UNCHANGED now
    /\ UNCHANGED <<storeVars, pageVars, hist>>

UpdateCourse ==
    /\ nops < MaxOps
    /\ \E id \in Ids, data \in UpdateData :
        LET r == updateCourse(storage, id, data, now)
        IN  /\ storage' = r.courses
            /\ last' = [op |-> "update", id |-> id, data |-> data, err |-> r.err]
    /\ nops' = nops + 1
    /\ UNCHANGED <<now, nextKey>>
    /\ UNCHANGED <<storeVars, pageVars, hist>>

DeleteCourse ==
    /\ nops < MaxOps
    /\ \E id \in Ids :
        LET r == deleteCourse(storage, id)
        IN  /\ storage' = r.courses
            /\ last' = [op |-> "delete", id |-> id, data |-> EmptyObj, err |-> r.err]
    /\ nops' = nops + 1
    /\ UNCHANGED <<now, nextKey>>
    /\ UNCHANGED <<storeVars, pageVars, hist>>

\* the store's update(id, data: Partial<Course>) hands data to updateCourse as it is
UpdatePartial ==
    /\ nops < MaxOps
    /\ \E id \in Ids, data \in PartialCourse :
        LET r == updateCourse(storage, id, data, now)
        IN  /\ storage' = r.courses
            /\ last' = [op |-> "update", id |-> id, data |-> data, err |-> r.err]
    /\ nops' = nops + 1
    /\ UNCHANGED <<now, nextKey>>
    /\ UNCHANGED <<storeVars, pageVars, hist>>

Next == Tick \/ CreateCourse \/ UpdateCourse \/ DeleteCourse

Spec == Init /\ [][Next]_vars

\* the gateway as the store calls it: update carries a Partial<Course>
NextPartial == Tick \/ CreateCourse \/ UpdatePartial \/ DeleteCourse

SpecPartial == Init /\ [][NextPartial]_vars

----------------------------------------------------------------------------
(* The list page over a loaded collection *)

\* three courses as the gateway writes them: a draft and a published one made at
\* the start of the first day, an archived one made late on the second day
Samples ==
    {NewCourse([title |-> "A", duration |-> 1], "a", 0, 1),
     Merged(NewCourse([title |-> "ab", duration |-> 2], "b", 0, 2),
            [status |-> "published"], 1),
     Merged(Merged(NewCourse([title |-> "B", duration |-> 2, description |-> "d"], "c", 3, 3),
                   [status |-> "published"], 3),
            [status |-> "archived"], 3)}

\* the collections of samples, each sample at most once, in every order
Collections ==
    UNION {{q \in [1..n -> Samples] : \A i, j \in 1..n : i # j => q[i] # q[j]} :
           n \in 0..Cardinality(Samples)}

\* the page shows a collection the store has loaded
InitList ==
    /\ storage \in Collections
    /\ now = 0
    /\ nops = 0
    /\ nextKey = Cardinality(Samples) + 1
    /\ last = [op |-> "none", id |-> "", data |-> EmptyObj, err |-> Ok]
    /\ courses = storage
    /\ loading = FALSE
    /\ error = null
    /\ calls = {}
    /\ filters = DefaultFilters
    /\ tz \in TimeZones
    /\ filtered = useMemo(courses, filters, tz).filtered
    /\ page = NoPage
    /\ hist = NoCall

\* the render that follows a state change: the memo runs on the store's array c
\* with the filters f
Render(c, f) ==
    LET m == useMemo(c, f, tz)
    IN  /\ courses' = m.courses
        /\ filtered' = m.filtered

\* the controls the filter bar shows: the sort selects are disabled in the drag
\* view, the range inputs are there while the advanced filters are open
Controls(f) ==
    {<<"status", v>> : v \in StatusOptions}
    \cup {<<"search", v>> : v \in SearchTexts}
    \cup (IF f.view # "drag"
          THEN {<<"sortBy", v>> : v \in SortKeys} \cup {<<"sortOrder", v>> : v \in SortOrders}
          ELSE {})
    \cup (IF f.showAdvancedFilters
          THEN {<<"dateRange", [f.dateRange EXCEPT !.start = v]>> : v \in DateTexts}
               \cup {<<"dateRange", [f.dateRange EXCEPT !.end = v]>> : v \in DateTexts}
               \cup {<<"durationRange", [f.durationRange EXCEPT !.min = v]>> : v \in DurationTexts}
               \cup {<<"durationRange", [f.durationRange EXCEPT !.max = v]>> : v \in DurationTexts}
          ELSE {})

\* handleFilterChange(key, value), called by a control whose value changes
HandleFilterChange ==
    /\ hist.n < MaxActs
    /\ \E c \in Controls(filters) :
        /\ filters[c[1]] # c[2]
        /\ filters' = [filters EXCEPT ![c[1]] = c[2]]
        /\ Render(courses, filters')
    /\ hist' = [NoCall EXCEPT !.n = hist.n + 1, !.op = "filter"]
    /\ UNCHANGED <<apiVars, loading, error, calls, tz, page>>

HandleToggleAdvancedFilters ==
    /\ hist.n < MaxActs
    /\ filters' = [filters EXCEPT !.showAdvancedFilters = ~filters.showAdvancedFilters]
    /\ Render(courses, filters')
    /\ hist' = [NoCall EXCEPT !.n = hist.n + 1, !.op = "toggle"]
    /\ UNCHANGED <<apiVars, loading, error, calls, tz, page>>

HandleViewChange ==
    /\ hist.n < MaxActs
    /\ \E view \in ViewModes \ {filters.view} :
        /\ filters' = [filters EXCEPT !.view = view]
        /\ Render(courses, filters')
    /\ hist' = [NoCall EXCEPT !.n = hist.n + 1, !.op = "view"]
    /\ UNCHANGED <<apiVars, loading, error, calls, tz, page>>

\* over?.id when the card is dropped outside the list
NoId == "<undefined>"

\* handleDragEnd of DraggableCourseList, given the filtered list, and through
\* handleReorder the store's reorder
HandleDragEnd ==
    /\ hist.n < MaxActs
    /\ filters.view = "drag"
    /\ \E active \in {c.id : c \in Range(filtered)},
          over \in {c.id : c \in Range(filtered)} \cup {NoId} :
        LET oldIndex == findIndex(filtered, active) - 1
            newIndex == findIndex(filtered, over) - 1
            moves == active # over /\ oldIndex # -1 /\ newIndex # -1
            newCourses == IF moves THEN reorder(courses, oldIndex, newIndex) ELSE courses
        IN  /\ Render(newCourses, filters)
            /\ hist' = [n |-> hist.n + 1, op |-> "drag", from |-> oldIndex, to |-> newIndex,
                        before |-> courses, after |-> newCourses, prev |-> NoPrev]
    /\ UNCHANGED <<apiVars, loading, error, calls, filters, tz, page>>

NextList ==
    HandleFilterChange \/ HandleToggleAdvancedFilters \/ HandleViewChange \/ HandleDragEnd

SpecList == InitList /\ [][NextList]_vars

----------------------------------------------------------------------------
(* The store's reorder, called with any two numbers *)

\* the store holds a loaded collection and nothing is in flight
InitReorder ==
    /\ storage \in Collections
    /\ now = 0
    /\ nops = 0
    /\ nextKey = Cardinality(Samples) + 1
    /\ last = [op |-> "none", id |-> "", data |-> EmptyObj, err |-> Ok]
    /\ courses = storage
    /\ loading = FALSE
    /\ error = null
    /\ calls = {}
    /\ filters = DefaultFilters
    /\ filtered = <<>>
    /\ tz = 0
    /\ page = NoPage
    /\ hist = NoCall

\* the numbers reorder is called with: the positions of the largest collection,
\* one below and one above
Indices == (0 - 1)..Cardinality(Samples)

\* reorder(startIndex, endIndex)
Reorder ==
    /\ hist.n < MaxActs
    /\ \E startIndex, endIndex \in Indices :
        /\ courses' = reorder(courses, startIndex, endIndex)
        /\ hist' = [n |-> hist.n + 1, op |-> "reorder",
                    from |-> startIndex, to |-> endIndex,
                    before |-> courses, after |-> courses',
                    prev |-> [hist EXCEPT !.prev = NoPrev]]
    /\ UNCHANGED <<apiVars, loading, error, calls, pageVars>>

NextReorder == Reorder

SpecReorder == InitReorder /\ [][NextReorder]_vars

----------------------------------------------------------------------------
(* CourseContext.tsx: the store over the gateway *)

\* the message of each rejection of the gateway
Message(err) ==
    CASE err = InvalidData -> "Invalid data"
      [] err = EditForbidden -> "Cannot edit archived course"
      [] err = NotFound -> "Course not found"
      [] err = NetworkError -> "Network error"

\* the data the store's create is called with: a form the gateway accepts and
\* one it rejects
StoreCreateData == {d \in CourseFormData : ~Has(d, "description") /\ d.duration = 1}

\* the data the store's update is called with by the Publish and Archive buttons
StoreUpdateData == {[status |-> "published"], [status |-> "archived"]}

\* the state of the provider
StoreState == [courses |-> courses, loading |-> loading, error |-> error]

\* a catch without its finally: loading stays as it is
catchStaysLoading(st, err) ==
    [st EXCEPT !.error = Message(err)]

\* a catch that also empties the collection
catchClears(st, err) ==
    [st EXCEPT !.courses = <<>>, !.error = Message(err), !.loading = FALSE]

\* catch (e) { setError(e.message || 'Failed to ...') } finally { setLoading(false) }
catch(st, err) ==
    [st EXCEPT !.error = Message(err), !.loading = FALSE]

\* a refresh that drops the courses it was given
loadedKeeps(st, list) ==
    [st EXCEPT !.loading = FALSE]

\* setCourses(await api.getCourses()) and finally { setLoading(false) }
loaded(st, list) ==
    [st EXCEPT !.courses = list, !.loading = FALSE]

\* the provider is mounted over a persisted collection: useEffect has called
\* refresh, which has reached its await
InitStore ==
    /\ storage \in {q \in Collections : Len(q) <= MaxCourses}
    /\ now = 0
    /\ nops = 0
    /\ nextKey = Cardinality(Samples) + 1
    /\ last = [op |-> "none", id |-> "", data |-> EmptyObj, err |-> Ok]
    /\ courses = <<>>
    /\ loading = TRUE
    /\ error = null
    /\ calls = {[n |-> 0, op |-> "refresh", phase |-> "list", id |-> "",
                 data |-> EmptyObj, held |-> <<>>, clean |-> TRUE, lists |-> 1]}
    /\ filters = DefaultFilters
    /\ filtered = <<>>
    /\ tz = 0
    /\ page = NoPage
    /\ hist = NoCall

\* refresh, create, update or remove is called and runs up to its first await:
\* setLoading(true), setError(null) and the call of the gateway.  The call keeps
\* the collection held at this moment, whether it is still untouched by others,
\* and the number of times it has called getCourses().  A create is called only
\* while storage has room for the courses of all the creates in flight.
StartCall(op, id, data) ==
    /\ hist.n < MaxStarts
    /\ Cardinality(calls) < MaxCalls
    /\ op = "create" =>
           Len(storage) + Cardinality({c \in calls : c.op = "create" /\ c.phase = "write"})
               < MaxCourses
    /\ loading' = TRUE
    /\ error' = null
    /\ calls' = calls \cup
                {[n |-> hist.n + 1, op |-> op,
                  phase |-> IF op = "refresh" THEN "list" ELSE "write",
                  id |-> id, data |-> data, held |-> courses, clean |-> TRUE,
                  lists |-> IF op = "refresh" THEN 1 ELSE 0]}
    /\ hist' = [hist EXCEPT !.n = hist.n + 1, !.op = op]
    /\ UNCHANGED <<apiVars, courses, filters, filtered, tz>>

StoreRefresh == StartCall("refresh", "", EmptyObj) /\ UNCHANGED page

StoreCreate ==
    /\ \E data \in StoreCreateData : StartCall("create", "", data)
    /\ UNCHANGED page

StoreUpdate ==
    /\ \E id \in Ids, data \in StoreUpdateData : StartCall("update", id, data)
    /\ UNCHANGED page

StoreRemove ==
    /\ \E id \in Ids : StartCall("remove", id, EmptyObj)
    /\ UNCHANGED page

\* the calls in flight other than c, told that the collection has been assigned
Others(c) == {[d EXCEPT !.clean = FALSE] : d \in calls \ {c}}

\* reorder(startIndex, endIndex) with two positions of the collection
StoreReorder ==
    /\ hist.n < MaxStarts
    /\ \E startIndex, endIndex \in 0..(Len(courses) - 1) :
        /\ courses' = reorder(courses, startIndex, endIndex)
        /\ hist' = [n |-> hist.n + 1, op |-> "reorder",
                    from |-> startIndex, to |-> endIndex,
                    before |-> courses, after |-> courses',
                    prev |-> NoPrev]
    /\ calls' = {[d EXCEPT !.clean = FALSE] : d \in calls}
    /\ UNCHANGED <<apiVars, loading, error, pageVars>>

\* what the gateway answers the write of call c; id is what Math.random gives a
\* new course
Answer(c, id) ==
    CASE c.op = "create" -> createCourse(storage, c.data, id, now, nextKey)
      [] c.op = "update" -> updateCourse(storage, c.id, c.data, now)
      [] c.op = "remove" -> deleteCourse(storage, c.id)

\* the name of the gateway operation a store operation calls
ApiOp(op) == IF op = "remove" THEN "delete" ELSE op

\* the gateway rejects the write of a call: catch and finally run, the call is over
WriteRejected ==
    \E c \in calls :
        /\ c.phase = "write"
        /\ LET r == Answer(c, c.id)
               st == catch(StoreState, r.err)
           IN  /\ r.err # Ok
               /\ last' = [op |-> ApiOp(c.op), id |-> c.id, data |-> c.data, err |-> r.err]
               /\ courses' = st.courses
               /\ loading' = st.loading
               /\ error' = st.error
        /\ nops' = nops + 1
        /\ calls' = calls \ {c}
        /\ UNCHANGED <<storage, now, nextKey, pageVars, hist>>

\* the gateway carries out the write of a call, and the call goes on into
\* refresh(), up to its await: setLoading(true), setError(null), getCourses()
WriteResolved ==
    \E c \in calls :
        /\ c.phase = "write"
        /\ \E id \in (IF c.op = "create" THEN Ids ELSE {c.id}) :
            LET r == Answer(c, id)
            IN  /\ r.err = Ok
                /\ storage' = r.courses
                /\ nextKey' = IF c.op = "create" THEN nextKey + 1 ELSE nextKey
                /\ last' = [op |-> ApiOp(c.op), id |-> id, data |-> c.data, err |-> Ok]
        /\ nops' = nops + 1
        /\ loading' = TRUE
        /\ error' = null
        /\ calls' = (calls \ {c}) \cup {[c EXCEPT !.phase = "list", !.lists = c.lists + 1]}
        /\ UNCHANGED <<now, courses, pageVars, hist>>

\* getCourses() rejects (Math.random() < 0.05): the catch and the finally of
\* refresh run, and then the finally of the write that called it
ListRejected ==
    \E c \in calls :
        /\ c.phase = "list"
        /\ LET st == catch(StoreState, NetworkError)
           IN  /\ courses' = st.courses
               /\ loading' = st.loading
               /\ error' = st.error
        /\ last' = [op |-> "list", id |-> "", data |-> EmptyObj, err |-> NetworkError]
        /\ nops' = nops + 1
        /\ calls' = calls \ {c}
        /\ UNCHANGED <<storage, now, nextKey, pageVars, hist>>

\* getCourses() resolves: setCourses, the finally of refresh, and then the
\* finally of the write that called it
ListResolved ==
    \E c \in calls :
        /\ c.phase = "list"
        /\ LET st == loaded(StoreState, storage)
           IN  /\ courses' = st.courses
               /\ loading' = st.loading
               /\ error' = st.error
        /\ last' = [op |-> "list", id |-> "", data |-> EmptyObj, err |-> Ok]
        /\ nops' = nops + 1
        /\ calls' = Others(c)
        /\ UNCHANGED <<storage, now, nextKey, pageVars, hist>>

NextStore ==
    \/ StoreRefresh \/ StoreCreate \/ StoreUpdate \/ StoreRemove \/ StoreReorder
    \/ WriteRejected \/ WriteResolved \/ ListRejected \/ ListResolved

SpecStore == InitStore /\ [][NextStore]_vars

\* the gateway call that the operation numbered n waits for settles
Settles(n) ==
    /\ WriteRejected \/ WriteResolved \/ ListRejected \/ ListResolved
    /\ \E c \in calls : c.n = n /\ \A d \in calls' : d.n = n => d.phase # c.phase

\* every gateway call resolves or rejects: the timer of randomDelay() fires
GatewayAnswers == \A n \in 0..MaxStarts : WF_vars(Settles(n))

SpecStoreFair == SpecStore /\ GatewayAnswers

----------------------------------------------------------------------------
(* The pages over the store: CourseFormPage and the buttons of CourseListPage *)

\* how the promise of the store's create, update or remove ends when the
\* gateway answered err: their catch sets error and does not rethrow
outcome(err) == "fulfilled"

\* an onSubmit that leaves the draft in localStorage
afterAwaitKeepsDraft(p, w, out, err, list) ==
    LET told == IF out = "fulfilled"
                THEN [p EXCEPT !.toast = [title |-> w.what, status |-> "success"]]
                ELSE [p EXCEPT !.toast = [title |-> Message(err), status |-> "error"]]
    IN  IF w.form /\ out = "fulfilled" THEN mounted(told, "/", "", list) ELSE told

\* what follows the await in onSubmit, handleDelete, handlePublish and
\* handleArchive: the success toast (after create, clearDraft() first; after a
\* submit, navigate('/')), or in the catch the error toast
afterAwait(p, w, out, err, list) ==
    LET cleared == IF out = "fulfilled" /\ w.what = "Course created"
                   THEN [p EXCEPT !.draft = NoItem] ELSE p
        told == IF out = "fulfilled"
                THEN [cleared EXCEPT !.toast = [title |-> w.what, status |-> "success"]]
                ELSE [cleared EXCEPT !.toast = [title |-> Message(err), status |-> "error"]]
    IN  IF w.form /\ out = "fulfilled" THEN mounted(told, "/", "", list) ELSE told

\* the routes a browser can be sent to, and the ids of the courses to edit
Routes == {"/", "/create", "/edit"}
PageIds == {c.id : c \in Samples}

\* the collections the pages are opened over
PageCollections == {q \in Collections : Len(q) <= 1}

\* the provider is mounted over a persisted collection and has called refresh;
\* the list page is shown
InitPages ==
    /\ storage \in PageCollections
    /\ now = 0
    /\ nops = 0
    /\ nextKey = Cardinality(Samples) + 1
    /\ last = [op |-> "none", id |-> "", data |-> EmptyObj, err |-> Ok]
    /\ courses = <<>>
    /\ loading = TRUE
    /\ error = null
    /\ calls = {[n |-> 0, op |-> "refresh", phase |-> "list", id |-> "",
                 data |-> EmptyObj, held |-> <<>>, clean |-> TRUE, lists |-> 1]}
    /\ filters = DefaultFilters
    /\ filtered = <<>>
    /\ tz = 0
    /\ page = NoPage
    /\ hist = NoCall

\* a gateway call has settled and the pages have not yet run: the handler that
\* awaited the store and the effects of the form come before anything else
Pending == page.at # nops

\* the handlers whose store operation is over
Done == {w \in page.waits : \A c \in calls : c.n # w.n}

\* what the gateway answered the write of the operation that has just ended:
\* an operation that went on into refresh() had its write carried out
WriteAnswer == IF last.op = "list" THEN Ok ELSE last.err

\* the pages run after a gateway call has settled: the handler that awaited the
\* operation goes on, and a form that is mounted renders with the store's state;
\* its effects run if getCourses() has given the collection new objects
Resume ==
    /\ Pending
    /\ LET went == IF Done = {} THEN page
                   ELSE LET w == CHOOSE w \in Done : TRUE
                        IN  afterAwait([page EXCEPT !.waits = page.waits \ {w}], w,
                                       outcome(WriteAnswer), WriteAnswer, courses)
           shown == IF went.route # "/" /\ last.op = "list" /\ last.err = Ok
                    THEN saveEffect(loadEffect(went, courses))
                    ELSE went
       IN  page' = [shown EXCEPT !.at = nops]
    /\ UNCHANGED <<apiVars, storeVars, filters, filtered, tz, hist>>

\* the browser is sent to a route: the Create and Edit buttons, Cancel, Back to
\* Courses, or the address bar
Open ==
    /\ ~Pending
    /\ \E route \in Routes, id \in PageIds :
        /\ route = "/edit" \/ id = "a"
        /\ <<route, IF route = "/edit" THEN id ELSE "">> # <<page.route, page.id>>
        /\ page' = mounted(page, route, IF route = "/edit" THEN id ELSE "", courses)
    /\ UNCHANGED <<apiVars, storeVars, filters, filtered, tz, hist>>

\* onChange of a field after a submit validates the field again
typed(p, field, v) ==
    LET q == [p EXCEPT !.values = v]
    IN  saveEffect(IF p.isSubmitted
                   THEN [q EXCEPT !.errors[field] = validate(v)[field]]
                   ELSE q)

\* a title is typed into the form
TypeTitle ==
    /\ ~Pending
    /\ View(page, courses) = "form"
    /\ \E title \in FormTitles \ {page.values.title} :
        page' = typed(page, "title", [page.values EXCEPT !.title = title])
    /\ UNCHANGED <<apiVars, storeVars, filters, filtered, tz, hist>>

\* a number is typed into the duration input: parseInt reads it, and onChange
\* of the field is given the number
TypeDuration ==
    /\ ~Pending
    /\ View(page, courses) = "form"
    /\ \E duration \in FormDurations \ {page.values.duration} :
        page' = typed(page, "duration", [page.values EXCEPT !.duration = duration])
    /\ UNCHANGED <<apiVars, storeVars, filters, filtered, tz, hist>>

\* a handler calls the store and awaits it
Await(p, what, form) ==
    [p EXCEPT !.waits = p.waits \cup {[n |-> hist.n + 1, what |-> what, form |-> form]}]

\* the submit button (disabled while loading): handleSubmit validates, and with
\* an error in a field it sets the errors and does not call onSubmit
SubmitInvalid ==
    /\ ~Pending
    /\ View(page, courses) = "form"
    /\ ~loading
    /\ validate(page.values) # NoErrors
    /\ page' = [page EXCEPT !.errors = validate(page.values), !.isSubmitted = TRUE]
    /\ UNCHANGED <<apiVars, storeVars, filters, filtered, tz, hist>>

\* handleSubmit(onSubmit) with valid fields: update(course.id, data) in edit mode,
\* create(data) otherwise, up to the await
SubmitValid ==
    /\ ~Pending
    /\ View(page, courses) = "form"
    /\ ~loading
    /\ validate(page.values) = NoErrors
    /\ LET course == find(courses, page.id)
           p == [page EXCEPT !.errors = NoErrors, !.isSubmitted = TRUE]
       IN  IF isEdit(page) /\ course # undefined
           THEN /\ StartCall("update", course.id, page.values)
                /\ page' = Await(p, "Course updated", TRUE)
           ELSE /\ StartCall("create", "", page.values)
                /\ page' = Await(p, "Course created", TRUE)

\* the list page shows its cards when the store neither loads nor has an error
CardsShown == page.route = "/" /\ ~loading /\ error = null

\* handleDelete(id) of a card, up to the await
HandleDelete ==
    /\ ~Pending
    /\ CardsShown
    /\ \E c \in Range(courses) :
        /\ StartCall("remove", c.id, EmptyObj)
        /\ page' = Await(page, "Course deleted", FALSE)

\* handlePublish(id) of a draft's card (disabled without title or duration), up
\* to the await
HandlePublish ==
    /\ ~Pending
    /\ CardsShown
    /\ \E c \in Range(courses) :
        /\ c.status = "draft"
        /\ ~(c.title = "" \/ c.duration = 0)
        /\ StartCall("update", c.id, [status |-> "published"])
        /\ page' = Await(page, "Course published", FALSE)

\* handleArchive(id) of a published course's card, up to the await
HandleArchive ==
    /\ ~Pending
    /\ CardsShown
    /\ \E c \in Range(courses) :
        /\ c.status = "published"
        /\ StartCall("update", c.id, [status |-> "archived"])
        /\ page' = Await(page, "Course archived", FALSE)

\* the gateway settles a call of the store while the pages are at rest
GatewayRejectsWrite == ~Pending /\ WriteRejected
GatewayResolvesWrite == ~Pending /\ WriteResolved
GatewayRejectsList == ~Pending /\ ListRejected
GatewayResolvesList == ~Pending /\ ListResolved

NextPages ==
    \/ Resume \/ Open \/ TypeTitle \/ TypeDuration \/ SubmitInvalid \/ SubmitValid
    \/ HandleDelete \/ HandlePublish \/ HandleArchive
    \/ GatewayRejectsWrite \/ GatewayResolvesWrite
    \/ GatewayRejectsList \/ GatewayResolvesList

SpecPages == InitPages /\ [][NextPages]_vars


----------------------------------------------------------------------------
(* What the properties below speak about *)

\* a gateway call has just returned: of this kind, or of any kind
Called(op) == nops' = nops + 1 /\ last'.op = op

\* the positions of the records stored under id
Stored(id) == {i \in DOMAIN storage : storage[i].id = id}

\* the pairs <<i, j>>: the record at i before the step is the record at j after it
Kept == {p \in (DOMAIN storage) \X (DOMAIN storage') : storage[p[1]].key = storage'[p[2]].key}

\* the filters that are set
ActiveStages(f) ==
    {k \in FilterStages :
        \/ k = 1 /\ f.status # "all"
        \/ k = 2 /\ f.search # ""
        \/ k = 3 /\ f.dateRange.start # ""
        \/ k = 4 /\ f.dateRange.end # ""
        \/ k = 5 /\ f.durationRange.min # ""
        \/ k = 6 /\ f.durationRange.max # ""}

\* course c satisfies the k-th filter: the filter keeps it when it is given c alone
Passes(c, k) == Stage(k, <<c>>, filters, tz) = <<c>>

\* the courses of the collection that satisfy every filter, in the collection's order
Passing == SelectSeq(courses, LAMBDA c : \A k \in FilterStages : Passes(c, k))

\* the orders in which the filters of S can be applied
Orders(S) ==
    {q \in [1..Cardinality(S) -> S] : \A i, j \in DOMAIN q : i # j => q[i] # q[j]}

\* the filters applied one after another in the order q
RECURSIVE ApplyInOrder(_, _)
ApplyInOrder(q, list) ==
    IF q = <<>> THEN list
    ELSE ApplyInOrder(Tail(q), Stage(Head(q), list, filters, tz))

\* the position of course c in the store's collection
PosIn(list, c) == CHOOSE i \in DOMAIN list : list[i] = c

----------------------------------------------------------------------------
(* Properties *)

\* C1: an update addressed to the id of an archived course is rejected with 403
\* 'Cannot edit archived course' and changes nothing in storage, whatever data it
\* carries; and no step changes a field of a record that is archived: the record
\* stays as it is until it is deleted.
ArchivedIsImmutable ==
    [][ /\ (Called("update") /\ \E i \in Stored(last'.id) : storage[i].status = "archived")
            => (last'.err = EditForbidden /\ storage' = storage)
        /\ \A p \in Kept :
              storage[p[1]].status = "archived" => storage'[p[2]] = storage[p[1]]
      ]_vars

\* C1 witness: an update of an archived course has just been rejected
ArchivedEditRejected ==
    /\ last.op = "update"
    /\ last.err = EditForbidden
    /\ \E i \in Stored(last.id) : storage[i].status = "archived"

\* C2: an update that takes a course into published leaves it with a publishedAt
\* (the time of that update when it had none), and once a course has a publishedAt
\* no later step changes or removes it.
PublishedAtSetOnce ==
    [][ \A p \in Kept :
          LET c == storage[p[1]]
              d == storage'[p[2]]
          IN  /\ (c.status # "published" /\ d.status = "published")
                    => /\ Has(d, "publishedAt")
                       /\ ~Has(c, "publishedAt") => d.publishedAt = now
              /\ Has(c, "publishedAt")
                    => (Has(d, "publishedAt") /\ d.publishedAt = c.publishedAt)
      ]_vars

\* C2 witness: a course published at an earlier time has just been updated again
UpdatedAfterPublishing ==
    /\ last.op = "update"
    /\ last.err = Ok
    /\ \E i \in Stored(last.id) :
          /\ Has(storage[i], "publishedAt")
          /\ storage[i].publishedAt < now
          /\ i = findIndex(storage, last.id)

\* C3: a stored course has a publishedAt exactly when its status has been published
\* at some point since it was created.
PublishedAtIffEverPublished ==
    \A i \in DOMAIN storage : Has(storage[i], "publishedAt") <=> storage[i].everPublished

\* C3 witness: a course that was published and then archived still has its
\* publishedAt
ArchivedKeepsPublishedAt ==
    /\ last.op = "update"
    /\ last.err = Ok
    /\ \E i \in Stored(last.id) :
          /\ storage[i].status = "archived"
          /\ storage[i].everPublished
          /\ Has(storage[i], "publishedAt")

\* C4: status only moves forward: no step takes a published course back to draft,
\* and no step gives an archived course another status.
StatusOnlyMovesForward ==
    [][ \A p \in Kept :
          /\ storage[p[1]].status = "published" => storage'[p[2]].status # "draft"
          /\ storage[p[1]].status = "archived" => storage'[p[2]].status = "archived"
      ]_vars

\* title non-empty and duration >= 1
Publishable(c) == c.title # "" /\ c.duration >= 1

\* C5: a draft course becomes published only with a non-empty title and a duration
\* of at least 1 at the time of the transition (the record the request finds, or the
\* record the request leaves, meets the precondition).
PublishNeedsTitleAndDuration ==
    [][ \A p \in Kept :
          (storage[p[1]].status = "draft" /\ storage'[p[2]].status = "published")
              => (Publishable(storage[p[1]]) \/ Publishable(storage'[p[2]]))
      ]_vars

\* C6: a create with an empty title or a duration <= 0 is rejected with 400
\* 'Invalid data' and leaves storage exactly as it was.
InvalidCreateRejected ==
    [][ (Called("create") /\ (last'.data.title = "" \/ last'.data.duration <= 0))
            => (last'.err = InvalidData /\ storage' = storage)
      ]_vars

\* C6 witness: a create with a zero duration has just been rejected while a course
\* is stored
CreateRejected ==
    /\ last.op = "create"
    /\ last.err = InvalidData
    /\ last.data.title # ""
    /\ last.data.duration = 0
    /\ storage # <<>>

\* C7: a successful create appends exactly one course: a draft, created now, with
\* no publishedAt and with the title, description and duration of the input; the
\* courses stored before are unchanged and keep their positions.
CreateAppendsDraft ==
    [][ (Called("create") /\ last'.err = Ok)
            => /\ Len(storage') = Len(storage) + 1
               /\ SubSeq(storage', 1, Len(storage)) = storage
               /\ LET c == storage'[Len(storage')]
                      data == last'.data
                  IN  /\ c.status = "draft"
                      /\ c.createdAt = now
                      /\ ~Has(c, "publishedAt")
                      /\ c.title = data.title
                      /\ c.duration = data.duration
                      /\ Has(c, "description") <=> Has(data, "description")
                      /\ Has(c, "description") => c.description = data.description
      ]_vars

\* C7 witness: a course with a description has just been created after another one
CreatedSecondCourse ==
    /\ last.op = "create"
    /\ last.err = Ok
    /\ Len(storage) = 2
    /\ Has(storage[2], "description")

\* C8: an update or a delete of an id that no stored course has is rejected with
\* 404 'Course not found' and leaves storage unchanged.
UnknownIdRejected ==
    [][ ((Called("update") \/ Called("delete")) /\ Stored(last'.id) = {})
            => (last'.err = NotFound /\ storage' = storage)
      ]_vars

\* C8 witness: a call for an id that is not stored has just been rejected while
\* another course is stored
UnknownIdWasRejected ==
    /\ last.op \in {"update", "delete"}
    /\ last.err = NotFound
    /\ Stored(last.id) = {}
    /\ storage # <<>>

\* C9: no two stored courses have the same id.
IdsAreUnique ==
    \A i, j \in DOMAIN storage : storage[i].id = storage[j].id => i = j

\* C10: a successful update changes neither the id nor the createdAt of the course it
\* is addressed to, whatever partial course record it carries, and changes no
\* field of any other course.
UpdateKeepsIdentity ==
    [][ (Called("update") /\ last'.err = Ok)
            => LET idx == findIndex(storage, last'.id)
               IN  /\ Len(storage') = Len(storage)
                   /\ storage'[idx].id = storage[idx].id
                   /\ storage'[idx].createdAt = storage[idx].createdAt
                   /\ \A i \in DOMAIN storage : i # idx => storage'[i] = storage[i]
      ]_vars

\* C11: the displayed list holds exactly the courses of the collection that
\* satisfy every filter that is set, each of them once; and the filters that are
\* set, applied one after another in any order, leave that same list.
FilteredIsConjunction ==
    /\ Range(filtered) = Range(Passing)
    /\ Len(filtered) = Len(Passing)
    /\ \A q \in Orders(ActiveStages(filters)) : ApplyInOrder(q, courses) = Passing

\* C11 witness: two filters are set, a course satisfies one of them and not the
\* other, and the list shows some courses and hides others
FilteredByTwoFilters ==
    /\ hist.op = "filter"
    /\ Cardinality(ActiveStages(filters)) >= 2
    /\ filtered # <<>>
    /\ \E c \in Range(courses), j, k \in ActiveStages(filters) :
          Passes(c, j) /\ ~Passes(c, k)

\* C12: in the grid and list views, two displayed courses that compare equal
\* under the sort key stand in the order they have in the collection, with
\* sortOrder asc and with sortOrder desc.
SortIsStable ==
    filters.view # "drag" =>
        \A i, j \in DOMAIN filtered :
            (i < j /\ cmp(filtered[i], filtered[j], filters) = 0)
                => PosIn(courses, filtered[i]) < PosIn(courses, filtered[j])

\* C12 witness: a descending sort by duration has moved courses, and two of the
\* displayed courses have the same duration
TiesSortedDescending ==
    /\ filters.view # "drag"
    /\ filters.sortBy = "duration"
    /\ filters.sortOrder = "desc"
    /\ filtered # Passing
    /\ \E i, j \in DOMAIN filtered : i < j /\ filtered[i].duration = filtered[j].duration

\* C13: in the grid and list views the displayed list is a permutation of the
\* courses that pass the filters, and by the sort key (title by localeCompare,
\* createdAt as an instant, duration) it never goes down when sortOrder is asc
\* and never goes up when it is desc.
OrderedBySortKey ==
    filters.view # "drag" =>
        /\ Range(filtered) = Range(Passing)
        /\ Len(filtered) = Len(Passing)
        /\ \A i, j \in DOMAIN filtered :
            i < j => IF filters.sortOrder = "asc"
                     THEN cmp(filtered[i], filtered[j], filters) <= 0
                     ELSE cmp(filtered[i], filtered[j], filters) >= 0

\* C13 witness: an ascending sort by title has moved courses of different titles
SortedAscendingByTitle ==
    /\ filters.view # "drag"
    /\ filters.sortBy = "title"
    /\ filters.sortOrder = "asc"
    /\ filtered # Passing
    /\ \E i, j \in DOMAIN filtered : cmp(filtered[i], filtered[j], filters) < 0

\* C14: in the drag view the displayed list is the courses of the collection
\* that pass the filters, in the order they have in the collection, whatever
\* sortBy and sortOrder are.
DragViewKeepsOrder ==
    filters.view = "drag" => filtered = Passing

\* C14 witness: the drag view hides a course and shows the others in an order
\* that a sort by sortBy and sortOrder would change
DragViewUnsorted ==
    /\ filters.view = "drag"
    /\ Len(filtered) < Len(courses)
    /\ filtered # sort(filtered, filters)

\* the last step was a drag that called the store's reorder
Dragged ==
    /\ hist'.n = hist.n + 1
    /\ hist'.op = "drag"
    /\ hist'.from # -1 /\ hist'.to # -1 /\ hist'.from # hist'.to

\* the courses of list that the filters hide, in the order of list
HiddenOf(list) == SelectSeq(list, LAMBDA c : c \notin Range(filtered))

\* C17: a drag in the drag view while the filters hide courses moves the dragged
\* course to the target position of the displayed list, and the hidden courses
\* keep the order they have among themselves.
DragReordersDisplayed ==
    [][ (Dragged /\ Len(filtered) < Len(courses))
            => /\ filtered' = reorder(filtered, hist'.from, hist'.to)
               /\ HiddenOf(courses') = HiddenOf(courses)
      ]_vars

\* C19: a render leaves the store's collection as the handler before it left it:
\* as it was, or as reorder returned it after a drag.
RenderKeepsCourses ==
    [][ hist'.n = hist.n + 1
            => courses' = IF hist'.op = "drag" THEN hist'.after ELSE courses
      ]_vars

\* C19 witness: no filter is set, so the memo works on the store's own array, and
\* the list it has sorted is in another order than the collection
SortedOwnArray ==
    /\ hist.op \in {"filter", "view"}
    /\ SameArray(filters)
    /\ filters.view # "drag"
    /\ filtered # courses

\* i is a position of list, counted from 0
ValidIndex(list, i) == 0 <= i /\ i < Len(list)

\* the last two calls were reorder(i, j) and then reorder(j, i), with i and j
\* positions of the collection
ThereAndBack ==
    /\ hist.op = "reorder"
    /\ hist.prev.op = "reorder"
    /\ ValidIndex(hist.prev.before, hist.prev.from)
    /\ ValidIndex(hist.prev.before, hist.prev.to)
    /\ hist.from = hist.prev.to
    /\ hist.to = hist.prev.from

\* C15: after reorder(i, j) and then reorder(j, i), with i and j positions of the
\* collection and nothing in between, the collection is as it was before the two.
ReorderThereAndBack == ThereAndBack => courses = hist.prev.before

\* C15 witness: a course was moved to another place and back again
MovedThereAndBack ==
    /\ ThereAndBack
    /\ hist.from # hist.to
    /\ hist.before # courses

\* C16: reorder with an index that is no position of the collection (negative, or
\* the length or more) leaves the collection as it was.
OutOfRangeReorderIsNoOp ==
    [][ ( /\ hist'.n = hist.n + 1
          /\ hist'.op = "reorder"
          /\ ~(ValidIndex(courses, hist'.from) /\ ValidIndex(courses, hist'.to)) )
            => courses' = courses
      ]_vars

\* what the drag view shows of the collection when no filter is set
ManualRender(list) == useMemo(list, [DefaultFilters EXCEPT !.view = "drag"], tz).filtered

\* the place of the course with key k in list
KeyPos(list, k) == CHOOSE i \in DOMAIN list : list[i].key = k

\* C18: once reorder has been called, the drag view shows the courses in the
\* order reorder left them in, until the next reorder: any two courses shown
\* that were in the collection then stand in the order they had then, also after
\* a create, update or delete and its refresh.
ManualOrderKept ==
    hist.after # <<>> =>
        LET shown == ManualRender(courses)
            then == {c.key : c \in Range(hist.after)}
        IN  \A i, j \in DOMAIN shown :
                (i < j /\ shown[i].key \in then /\ shown[j].key \in then)
                    => KeyPos(hist.after, shown[i].key) < KeyPos(hist.after, shown[j].key)

\* call c, a write the gateway has not answered yet, ends in this step: the
\* gateway rejects it
Rejected(c) ==
    /\ c \in calls
    /\ c.phase = "write"
    /\ \A d \in calls' : d.n # c.n

\* C20 as stated: when the gateway rejects a create, update or delete, the
\* collection the store holds once the operation has ended is the one it held
\* when the operation started.
FailedWriteKeepsHeld ==
    [][ \A c \in calls : Rejected(c) => courses' = c.held ]_vars

\* C20: when the gateway rejects a create, update or delete, the operation has
\* not assigned the collection: ending it leaves the collection as it is, and
\* that is the collection held when the operation started unless another
\* operation (a refresh that resolved, a reorder) has assigned it meanwhile.
FailedWriteLeavesCourses ==
    [][ \A c \in calls :
            Rejected(c) => /\ courses' = courses
                           /\ c.clean => courses' = c.held
      ]_vars

\* C20 witness: a write has just been rejected while the store holds courses
WriteWasRejected ==
    /\ last.op \in {"create", "update", "delete"}
    /\ last.err # Ok
    /\ error = Message(last.err)
    /\ ~loading
    /\ courses # <<>>

\* call c, a write the gateway has carried out, ends in this step: the
\* getCourses() of its refresh is answered
WriteCompleted(c) ==
    /\ c \in calls
    /\ c.op # "refresh"
    /\ c.phase = "list"
    /\ \A d \in calls' : d.n # c.n

\* C21 as stated: a create, update or delete the gateway has carried out calls
\* getCourses() once before it ends, and when it has ended the collection the
\* store holds is the persisted one.
WriteEndsRefreshed ==
    [][ \A c \in calls :
            WriteCompleted(c) => (c.lists = 1 /\ courses' = storage')
      ]_vars

\* C21: a create, update or delete the gateway has carried out calls
\* getCourses() once before it ends (one it has rejected calls it not at all);
\* when that call resolves, the store ends the operation holding the persisted
\* collection, and when it is rejected the store keeps the collection it held
\* and sets error to the message of the rejection.
WriteRefreshesOnce ==
    [][ \A c \in calls :
            /\ Rejected(c) => c.lists = 0
            /\ WriteCompleted(c) =>
                /\ c.lists = 1
                /\ IF last'.err = Ok
                   THEN courses' = storage'
                   ELSE courses' = courses /\ error' = Message(NetworkError)
      ]_vars

\* C21 witness: a create, the only call made on the store, has ended, and the
\* store holds the persisted collection with the new course in it
CreateWasRefreshed ==
    /\ calls = {}
    /\ hist.n = 1
    /\ hist.op = "create"
    /\ last.op = "list"
    /\ last.err = Ok
    /\ courses = storage
    /\ \E c \in Range(courses) : c.key > Cardinality(Samples)

\* C22: with dateRange.end set to a day, the filter keeps the courses created up
\* to the last instant of that day (counted in UTC, as createdAt is written) and
\* no course created after it.
EndDateKeepsWholeDay ==
    filters.dateRange.end # "" =>
        \A c \in Range(courses) :
            Passes(c, 4) <=> c.createdAt < DateOf(filters.dateRange.end) + DayLen

\* C23: a duration bound that parseInt cannot read is no constraint, as an empty
\* one; a bound it can read keeps the courses of that duration or beyond (min), or
\* of that duration or less (max).
UnparseableBoundIsNoBound ==
    LET min == parseInt(filters.durationRange.min)
        max == parseInt(filters.durationRange.max)
    IN  /\ byMinDuration(courses, filters) =
               IF min.nan THEN courses
               ELSE SelectSeq(courses, LAMBDA c : c.duration >= min.n)
        /\ byMaxDuration(courses, filters) =
               IF max.nan THEN courses
               ELSE SelectSeq(courses, LAMBDA c : c.duration <= max.n)

\* the edit page is open for a course that is archived in the collection held
ArchivedOpen(p, list) ==
    /\ p.route = "/edit"
    /\ \E c \in Range(list) : c.id = p.id /\ c.status = "archived"

\* the handlers that have begun to await the store in this step
Begun == page'.waits \ page.waits

\* C24: while the edit page is open for a course whose status in the collection
\* held is archived, the blocking message is rendered and not the form, and the
\* form never starts an update of such a course.
ArchivedEditIsBlocked ==
    [][ /\ ArchivedOpen(page', courses') => View(page', courses') = "blocked"
        /\ \A w \in Begun : w.form => ~ArchivedOpen(page, courses) ]_vars

\* C24 witness: the edit page of an archived course of the loaded collection
\* is open and shows the blocking message.
ArchivedEditBlocked ==
    /\ calls = {}
    /\ courses = storage
    /\ ArchivedOpen(page, courses)
    /\ View(page, courses) = "blocked"

\* C25: when the gateway rejects a create, update or delete, the store's error
\* becomes the message of the rejection, and the handler that awaited the store
\* shows no success toast, clears no draft and does not leave its page.
FailureIsObserved ==
    [][ /\ \A c \in calls : Rejected(c) => error' = Message(last'.err)
        /\ (Pending /\ Done # {} /\ WriteAnswer # Ok) =>
               /\ page'.toast.status = "error"
               /\ page'.draft = page.draft
               /\ page'.route = page.route ]_vars

\* C26: the draft key is written only by a create form that is dirty, with the
\* values of the form, and when the handler that awaited a create the gateway
\* has carried out has run, the key is absent.
DraftOnlyFromDirtyCreate ==
    [][ /\ (page'.draft # page.draft /\ page'.draft # NoItem) =>
               /\ page'.route = "/create"
               /\ isDirty(page')
               /\ page'.draft = page'.values
        /\ (Pending /\ WriteAnswer = Ok /\ \E w \in Done : w.what = "Course created") =>
               page'.draft = NoItem ]_vars

\* C26 witness: a course typed into the create form is persisted, the handler
\* has run, and the draft written while typing is gone.
DraftClearedAfterCreate ==
    /\ ~Pending
    /\ calls = {}
    /\ hist.op = "create"
    /\ page.toast = [title |-> "Course created", status |-> "success"]
    /\ page.draft = NoItem
    /\ \E c \in Range(storage) : c.key > Cardinality(Samples)

\* C27: the first submit of a form reports 'Title is required' for an empty
\* title and 'Must be greater than 0' for a duration of 0, each under its own
\* field, and with either the store is not called.
InvalidFieldsReported ==
    [][ (View(page, courses) = "form" /\ ~page.isSubmitted /\ page'.isSubmitted) =>
            /\ page.values.title = "" => page'.errors.title = "Title is required"
            /\ page.values.duration = 0 =>
                   page'.errors.duration = "Must be greater than 0"
            /\ (page.values.title = "" \/ page.values.duration = 0) =>
                   (calls' = calls /\ hist' = hist) ]_vars

\* the operation numbered n is in flight
InFlight(n) == \E c \in calls : c.n = n

\* C28: if every gateway call resolves or rejects, every refresh, create, update
\* and remove that was started ends; whenever no operation is in flight loading
\* is false; and a rejected getCourses() leaves an error and the collection the
\* store held.
StartedOperationsEnd ==
    /\ \A n \in 0..MaxStarts : InFlight(n) ~> ~InFlight(n)
    /\ [](calls = {} => ~loading)
    /\ [][ \A c \in calls :
               (c.phase = "list" /\ ~InFlight(c.n)' /\ last'.err # Ok) =>
                   (error' # null /\ courses' = courses) ]_vars

\* C28 witness: every operation has ended, the last one with a rejected
\* getCourses(); loading is false and the error is set.
AllEndedAfterFailedList ==
    /\ calls = {}
    /\ hist.n > 0
    /\ last.op = "list"
    /\ last.err = NetworkError
    /\ ~loading
    /\ error = Message(NetworkError)

\* the list without its i-th element
Rest(list, i) == [j \in 1..(Len(list) - 1) |-> IF j < i THEN list[j] ELSE list[j + 1]]

LoadingWhileInFlight == calls # {} => loading

====
